---- MODULE Spec2Model ----
(***************************************************************************)
(* genpkgbuild-go (src/main.go): run() resolves an import path, starts     *)
(* getVersion in a goroutine, prompts on /dev/tty, joins over two          *)
(* unbuffered channels and executes the PKGBUILD template; main() maps     *)
(* run's error to the exit code.                                           *)
(*                                                                         *)
(* Go strings are sequences of one-character strings; the zero value ""    *)
(* is <<>>.                                                                *)
(***************************************************************************)
EXTENDS Integers, Sequences, FiniteSets, TLC

VARIABLES
    osArgs,      \* os.Args[1:]
    files,       \* the filesystem: file name -> "absent" | "old" | "created"
    pc,          \* position of the main goroutine
    args,        \* positional arguments collected by the closure of run
    outputPath,  \* value of the -o flag
    output,      \* "none" | "stdout" | "file"
    importPath,
    repoRoot,    \* *vcs.RepoRoot
    pkgName, dependsList, depends, relPath, binName, version,
    scn,         \* the scanner: [text: scn.Text(), err: scn.Err(), eof: input ended]
    ttyOut,      \* what was written to w (the terminal)
    stderr,      \* what was written to os.Stderr
    runErr,      \* the error run() returned ("nil": none)
    exitCode,    \* -1 while the process runs
    executed,    \* the TmplData records handed to tmpl.Execute
    written,     \* bytes of the recipe written to output: "nothing" | "partial" | "recipe"
    bgpc,        \* position of the goroutine started at main.go:157
    bgRes,       \* what getVersion returned: [version, err]
    tmpDir,      \* the ioutil.TempDir directory: "none" | "exists" | "removed"
    errC,        \* values handed over on errC, in order
    versionC     \* values handed over on versionC, in order

vars == <<osArgs, files, pc, args, outputPath, output, importPath, repoRoot,
          pkgName, dependsList, depends, relPath, binName, version, scn, ttyOut, stderr,
          runErr, exitCode, executed, written, bgpc, bgRes, tmpDir, errC, versionC>>

mainVars == <<args, outputPath, output, importPath, repoRoot,
              pkgName, dependsList, depends, relPath, binName, version, scn>>
bgVars == <<bgpc, bgRes, tmpDir>>
chanVars == <<errC, versionC>>
outVars == <<ttyOut, stderr, executed, written>>

----------------------------------------------------------------------------
(* Bounds and input alphabets *)

\* longest line typed at a prompt
MaxLineLen == 3

\* characters a line typed at the terminal is made of
LineChars == {" ", "a"}

Lines == UNION {[1..n -> LineChars] : n \in 0..MaxLineLen}

----------------------------------------------------------------------------
(* strings, path *)

IsSpace(c) == c \in {" ", "\t", "\n", "\r"}

RECURSIVE TrimLeft(_)
TrimLeft(s) == IF s # <<>> /\ IsSpace(Head(s)) THEN TrimLeft(Tail(s)) ELSE s

RECURSIVE TrimRight(_)
TrimRight(s) ==
    IF s # <<>> /\ IsSpace(s[Len(s)]) THEN TrimRight(SubSeq(s, 1, Len(s) - 1)) ELSE s

\* strings.TrimSpace
TrimSpace(s) == TrimRight(TrimLeft(s))

\* length of the leading run of non-space characters
RECURSIVE WordLen(_)
WordLen(s) == IF s = <<>> \/ IsSpace(Head(s)) THEN 0 ELSE 1 + WordLen(Tail(s))

\* strings.Fields
RECURSIVE Fields(_)
Fields(s) ==
    LET t == TrimLeft(s)
        n == WordLen(t)
    IN  IF t = <<>> THEN <<>>
        ELSE <<SubSeq(t, 1, n)>> \o Fields(SubSeq(t, n + 1, Len(t)))

RECURSIVE StripSlashes(_)
StripSlashes(p) ==
    IF p # <<>> /\ p[Len(p)] = "/" THEN StripSlashes(SubSeq(p, 1, Len(p) - 1)) ELSE p

\* index of the last "/" of p, 0 when there is none
LastSlash(p) ==
    LET S == {i \in 1..Len(p) : p[i] = "/"}
    IN  IF S = {} THEN 0 ELSE CHOOSE i \in S : \A j \in S : j <= i

\* path.Base
PathBase(p) ==
    IF p = <<>> THEN <<".">>
    ELSE LET q == StripSlashes(p)
             r == SubSeq(q, LastSlash(q) + 1, Len(q))
         IN  IF r = <<>> THEN <<"/">> ELSE r

\* filepath.Rel(base, targ) for clean slash-separated paths of which base is
\* targ or a directory above it (what RepoRootForImportPath returns)
FilepathRel(base, targ) ==
    IF targ = base THEN <<".">>
    ELSE SubSeq(targ, Len(base) + 2, Len(targ))

\* fmt.Sprintf("%s-git", baseName)
GitSuffix(baseName) == baseName \o <<"-", "g", "i", "t">>

----------------------------------------------------------------------------
(* command line *)

PKGBUILD == <<"P", "K", "G", "B", "U", "I", "L", "D">>
OFlag == <<"-", "o">>
XFlag == <<"-", "x">>
Dash == <<"-">>
OutFile == <<"o">>
ImpRoot == <<"h", "/", "a">>
ImpSub == <<"h", "/", "a", "/", "c">>

\* the command lines explored (os.Args[1:])
CmdLines ==
    { <<>>,
      <<ImpRoot>>,
      <<ImpSub>>,
      <<OFlag, OutFile>>,
      <<OFlag, Dash, ImpSub>>,
      <<ImpRoot, OFlag, OutFile>>,
      <<OFlag>>,
      <<XFlag, ImpRoot>> }

FileNames == {PKGBUILD, OutFile}

\* flag: an argument of at least two characters that starts with "-"
IsFlag(s) == Len(s) >= 2 /\ s[1] = "-"

\* fs.Parse(a) of a FlagSet whose only flag is the string flag -o, current
\* value out: flags are consumed up to the first non-flag argument
RECURSIVE FlagParse(_, _)
FlagParse(out, a) ==
    IF a = <<>> \/ ~IsFlag(Head(a))
    THEN [err |-> "nil", output |-> out, rest |-> a]
    ELSE IF Head(a) = OFlag
         THEN IF Len(a) < 2
              THEN [err |-> "flag needs an argument", output |-> out, rest |-> <<>>]
              ELSE FlagParse(a[2], Tail(Tail(a)))
         ELSE [err |-> "flag provided but not defined", output |-> out, rest |-> <<>>]

\* the loop of main.go:116-120: every positional argument is collected and the
\* arguments after it are parsed again
RECURSIVE Collect(_, _, _)
Collect(out, a, acc) ==
    LET r == FlagParse(out, a)
    IN  IF r.err # "nil" THEN [err |-> r.err, output |-> r.output, args |-> acc]
        ELSE IF r.rest # <<>>
             THEN Collect(r.output, Tail(r.rest), Append(acc, Head(r.rest)))
             ELSE [err |-> "nil", output |-> r.output, args |-> acc]

\* the closure of main.go:107-126
ParseCmdLine(a) ==
    LET c == Collect(PKGBUILD, a, <<>>)
    IN  IF c.err # "nil" THEN c
        ELSE LET f == FlagParse(c.output, a)
             IN  [err |-> f.err, output |-> f.output, args |-> c.args]

----------------------------------------------------------------------------
(* the resolver *)

NilRepoRoot == [err |-> "nil", VCS |-> "", Repo |-> <<>>, Root |-> <<>>]

\* the prefixes of p that end at a path element and hold a host and a path
Roots(p) ==
    {SubSeq(p, 1, i) : i \in {j \in 1..Len(p) :
        /\ p[j] # "/"
        /\ j = Len(p) \/ p[j + 1] = "/"
        /\ \E k \in 2..(j - 1) : p[k] = "/"}}

VCSNames == {"Git", "Mercurial"}

RepoURL(root) == <<"h", "t", "t", "p", "s", ":", "/", "/">> \o root

\* vcs.RepoRootForImportPath(p, true): every outcome it can have
RepoRootForImportPath(p) ==
    {[err |-> "resolve", VCS |-> "", Repo |-> <<>>, Root |-> <<>>]}
    \cup {[err |-> "nil", VCS |-> k, Repo |-> RepoURL(r), Root |-> r] :
            r \in Roots(p), k \in VCSNames}

----------------------------------------------------------------------------
(* the version command *)

\* the clone: what git describe --long --tags prints (<<>>: no tag reachable,
\* it fails), the commit count and the short hash
GitStates ==
    { [describe |-> <<>>, count |-> <<"3">>, hash |-> <<"c">>],
      [describe |-> <<"v", "-", "1", "-", "g", "c">>, count |-> <<"3">>, hash |-> <<"c">>] }

\* sed 's/\([^-]*-g\)/r\1/': "r" goes before the leftmost match of [^-]*-g
SedR(s) ==
    LET M == {i \in 1..Len(s) : \E j \in i..(Len(s) - 1) :
                 /\ s[j] = "-" /\ s[j + 1] = "g"
                 /\ \A k \in i..(j - 1) : s[k] # "-"}
    IN  IF M = {} THEN s
        ELSE LET i == CHOOSE x \in M : \A y \in M : x <= y
             IN  SubSeq(s, 1, i - 1) \o <<"r">> \o SubSeq(s, i, Len(s))

\* sed 's/-/./g'
SedDots(s) == [i \in 1..Len(s) |-> IF s[i] = "-" THEN "." ELSE s[i]]

\* standard output of bash -c pkgVerCmdString in the clone g
PkgVerCmd(g) ==
    IF g.describe # <<>>
    THEN SedDots(SedR(g.describe)) \o <<"\n">>
    ELSE <<"r">> \o g.count \o <<".">> \o g.hash

----------------------------------------------------------------------------
(* prompt *)

\* what scn.Scan() can do: produce a line, or return false at the end of the
\* input (err "nil") or on a read error
ScanOutcomes ==
    {[ok |-> TRUE, text |-> l, err |-> "nil"] : l \in Lines}
    \cup {[ok |-> FALSE, text |-> <<>>, err |-> e] : e \in {"nil", "io"}}

\* prompt with strings.TrimLeft in place of strings.TrimSpace
Prompt_TrimLeftOnly(dflt, s) ==
    IF ~s.ok
    THEN [v |-> <<>>, err |-> IF s.err # "nil" THEN "input error" ELSE "interrupted"]
    ELSE LET v == TrimLeft(s.text)
         IN  [v |-> IF v = <<>> THEN dflt ELSE v, err |-> "nil"]

\* prompt without the substitution of the default
Prompt_NoDefault(dflt, s) ==
    IF ~s.ok
    THEN [v |-> <<>>, err |-> IF s.err # "nil" THEN "input error" ELSE "interrupted"]
    ELSE [v |-> TrimSpace(s.text), err |-> "nil"]

\* prompt(p, dflt) when scn.Scan() does s: the value and the error returned
Prompt(dflt, s) ==
    IF ~s.ok
    THEN [v |-> <<>>, err |-> IF s.err # "nil" THEN "input error" ELSE "interrupted"]
    ELSE LET v == TrimSpace(s.text)
         IN  [v |-> IF v = <<>> THEN dflt ELSE v, err |-> "nil"]

\* the scanner after scn.Scan() did s
Scanned(s) == [text |-> s.text, err |-> s.err, eof |-> ~s.ok]

\* what prompt writes to w
PromptText(p, dflt) == [text |-> p, dflt |-> dflt]

----------------------------------------------------------------------------
(* Init *)

Init ==
    /\ osArgs \in CmdLines
    /\ files \in [FileNames -> {"absent", "old"}]
    /\ pc = "openTTY"
    /\ args = <<>>
    /\ outputPath = <<>>
    /\ output = "none"
    /\ importPath = <<>>
    /\ repoRoot = NilRepoRoot
    /\ pkgName = <<>>
    /\ dependsList = <<>>
    /\ depends = <<>>
    /\ relPath = <<>>
    /\ binName = <<>>
    /\ version = <<>>
    /\ scn = [text |-> <<>>, err |-> "nil", eof |-> FALSE]
    /\ ttyOut = <<>>
    /\ stderr = <<>>
    /\ runErr = "nil"
    /\ exitCode = -1
    /\ executed = <<>>
    /\ written = "nothing"
    /\ bgpc = "none"
    /\ bgRes = [version |-> <<>>, err |-> "nil"]
    /\ tmpDir = "none"
    /\ errC = <<>>
    /\ versionC = <<>>

----------------------------------------------------------------------------
(* run and main: the main goroutine *)

Running == exitCode = -1

\* run returns err to main
Return(err) == pc' = "returned" /\ runErr' = err

\* os.Exit(code), or the runtime ending the process after a panic
Exit(code) == pc' = "exited" /\ exitCode' = code

\* main.go:99-105
OpenTTY ==
    /\ pc = "openTTY"
    /\ \/ pc' = "parseFlags" /\ runErr' = runErr
       \/ Return("could not open TTY")
    /\ UNCHANGED <<osArgs, files, mainVars, bgVars, chanVars, outVars, exitCode>>

\* main.go:107-129; the FlagSet is flag.ExitOnError: a parse error prints the
\* error and the usage and exits with 2
ParseFlags ==
    /\ pc = "parseFlags"
    /\ LET r == ParseCmdLine(osArgs)
       IN  IF r.err # "nil"
           THEN /\ stderr' = stderr \o <<r.err, "usage">>
                /\ Exit(2)
                /\ UNCHANGED <<args, outputPath>>
           ELSE /\ args' = r.args
                /\ outputPath' = r.output
                /\ pc' = "openOutput"
                /\ UNCHANGED <<stderr, exitCode>>
    /\ UNCHANGED <<osArgs, files, output, importPath, repoRoot, pkgName, dependsList,
                   depends, relPath, binName, version, scn, ttyOut, runErr, executed,
                   written, bgVars, chanVars>>

\* the destination opened without os.O_EXCL: an existing file is truncated
OpenOutput_Truncate ==
    /\ pc = "openOutput"
    /\ IF outputPath = Dash
       THEN output' = "stdout" /\ UNCHANGED files
       ELSE output' = "file" /\ files' = [files EXCEPT ![outputPath] = "created"]
    /\ pc' = "checkArgs"
    /\ UNCHANGED <<osArgs, args, outputPath, importPath, repoRoot, pkgName, dependsList,
                   depends, relPath, binName, version, scn, bgVars, chanVars, outVars,
                   runErr, exitCode>>

\* main.go:131-139
OpenOutput ==
    /\ pc = "openOutput"
    /\ IF outputPath = Dash
       THEN /\ output' = "stdout"
            /\ pc' = "checkArgs"
            /\ UNCHANGED <<files, runErr>>
       ELSE IF files[outputPath] # "absent"
            THEN /\ Return("file exists")
                 /\ UNCHANGED <<files, output>>
            ELSE \/ /\ files' = [files EXCEPT ![outputPath] = "created"]
                    /\ output' = "file"
                    /\ pc' = "checkArgs"
                    /\ runErr' = runErr
                 \/ /\ Return("cannot create")
                    /\ UNCHANGED <<files, output>>
    /\ UNCHANGED <<osArgs, args, outputPath, importPath, repoRoot, pkgName, dependsList,
                   depends, relPath, binName, version, scn, bgVars, chanVars, outVars,
                   exitCode>>

\* main.go:141-144; args[0] of an empty args panics: the runtime reports the
\* panic and the process exits with 2
CheckArgs ==
    /\ pc = "checkArgs"
    /\ IF Len(osArgs) + 1 < 2
       THEN /\ Return("specify import path")
            /\ UNCHANGED <<importPath, stderr, exitCode>>
       ELSE IF args = <<>>
            THEN /\ stderr' = Append(stderr, "panic: index out of range")
                 /\ Exit(2)
                 /\ UNCHANGED <<importPath, runErr>>
            ELSE /\ importPath' = args[1]
                 /\ pc' = "resolve"
                 /\ UNCHANGED <<runErr, stderr, exitCode>>
    /\ UNCHANGED <<osArgs, files, args, outputPath, output, repoRoot, pkgName,
                   dependsList, depends, relPath, binName, version, scn, ttyOut,
                   executed, written, bgVars, chanVars>>

\* main.go:146-149
Resolve ==
    /\ pc = "resolve"
    /\ \E r \in RepoRootForImportPath(importPath) :
          IF r.err # "nil"
          THEN Return("can't get root repo") /\ UNCHANGED repoRoot
          ELSE repoRoot' = r /\ pc' = "checkVCS" /\ runErr' = runErr
    /\ UNCHANGED <<osArgs, files, args, outputPath, output, importPath, pkgName,
                   dependsList, depends, relPath, binName, version, scn, bgVars,
                   chanVars, outVars, exitCode>>

\* the goroutine started before the VCS check
CheckVCS_AfterGo ==
    /\ pc = "checkVCS"
    /\ bgpc' = "tempDir"
    /\ IF repoRoot.VCS # "Git"
       THEN Return("not git repo is not supported")
       ELSE pc' = "promptPkgName" /\ runErr' = runErr
    /\ UNCHANGED <<osArgs, files, mainVars, bgRes, tmpDir, chanVars, outVars, exitCode>>

\* main.go:151-161: the VCS check, then the two channels and the goroutine
CheckVCS ==
    /\ pc = "checkVCS"
    /\ IF repoRoot.VCS # "Git"
       THEN Return("not git repo is not supported") /\ UNCHANGED bgpc
       ELSE pc' = "promptPkgName" /\ bgpc' = "tempDir" /\ runErr' = runErr
    /\ UNCHANGED <<osArgs, files, mainVars, bgRes, tmpDir, chanVars, outVars, exitCode>>

\* main.go:163-167
PromptPkgName ==
    /\ pc = "promptPkgName"
    /\ \E s \in ScanOutcomes :
          LET dflt == GitSuffix(PathBase(repoRoot.Root))
              r == Prompt(dflt, s)
          IN  /\ ttyOut' = Append(ttyOut, PromptText("Package Name", dflt))
              /\ scn' = Scanned(s)
              /\ IF r.err # "nil"
                 THEN Return(r.err) /\ UNCHANGED pkgName
                 ELSE pkgName' = r.v /\ pc' = "promptDepends" /\ runErr' = runErr
    /\ UNCHANGED <<osArgs, files, args, outputPath, output, importPath, repoRoot,
                   dependsList, depends, relPath, binName, version, stderr, executed,
                   written, bgVars, chanVars, exitCode>>

\* main.go:169-181
PromptDepends ==
    /\ pc = "promptDepends"
    /\ \E s \in ScanOutcomes :
          LET r == Prompt(<<>>, s)
              rel == FilepathRel(repoRoot.Root, importPath)
          IN  /\ ttyOut' = Append(ttyOut,
                              PromptText("Dependent Packages(split by space)", <<>>))
              /\ scn' = Scanned(s)
              /\ IF r.err # "nil"
                 THEN Return(r.err) /\ UNCHANGED <<dependsList, depends, relPath>>
                 ELSE /\ dependsList' = r.v
                      /\ depends' = Fields(r.v)
                      /\ relPath' = IF rel = <<".">> THEN <<>> ELSE rel
                      /\ pc' = "promptBinName"
                      /\ runErr' = runErr
    /\ UNCHANGED <<osArgs, files, args, outputPath, output, importPath, repoRoot,
                   pkgName, binName, version, stderr, executed, written, bgVars,
                   chanVars, exitCode>>

\* main.go:183-188
PromptBinName ==
    /\ pc = "promptBinName"
    /\ \E s \in ScanOutcomes :
          LET dflt == PathBase(importPath)
              r == Prompt(dflt, s)
              shown == Append(ttyOut, PromptText("Binary name to be installed", dflt))
          IN  /\ scn' = Scanned(s)
              /\ IF r.err # "nil"
                 THEN Return(r.err) /\ ttyOut' = shown /\ UNCHANGED binName
                 ELSE /\ binName' = r.v
                      /\ ttyOut' = Append(shown, PromptText("Please wait...", <<>>))
                      /\ pc' = "recvErr"
                      /\ runErr' = runErr
    /\ UNCHANGED <<osArgs, files, args, outputPath, output, importPath, repoRoot,
                   pkgName, dependsList, depends, relPath, version, stderr, executed,
                   written, bgVars, chanVars, exitCode>>

\* the error received from errC is dropped
RecvErr_IgnoreErr ==
    /\ pc = "recvErr"
    /\ bgpc = "sendErr"
    /\ errC' = Append(errC, bgRes.err)
    /\ bgpc' = "sendVersion"
    /\ pc' = "recvVersion"
    /\ UNCHANGED <<osArgs, files, mainVars, bgRes, tmpDir, versionC, outVars, runErr,
                   exitCode>>

\* a failed fetch is also picked up before the third prompt
RecvErr_Early ==
    /\ bgpc = "sendErr"
    /\ \/ pc = "recvErr"
       \/ pc = "promptBinName" /\ bgRes.err # "nil"
    /\ errC' = Append(errC, bgRes.err)
    /\ bgpc' = "sendVersion"
    /\ IF bgRes.err # "nil"
       THEN Return(bgRes.err)
       ELSE pc' = "recvVersion" /\ runErr' = runErr
    /\ UNCHANGED <<osArgs, files, mainVars, bgRes, tmpDir, versionC, outVars, exitCode>>

\* the goroutine sends on versionC first: the receive from errC can complete
\* only after that send
RecvErr_AfterVersion ==
    /\ pc = "recvErr"
    /\ bgpc = "sendVersion"
    /\ errC' = Append(errC, bgRes.err)
    /\ bgpc' = "done"
    /\ IF bgRes.err # "nil"
       THEN Return(bgRes.err)
       ELSE pc' = "recvVersion" /\ runErr' = runErr
    /\ UNCHANGED <<osArgs, files, mainVars, bgRes, tmpDir, versionC, outVars, exitCode>>

\* main.go:190-192 with main.go:159: errC is unbuffered, the send and the
\* receive happen together
RecvErr ==
    /\ pc = "recvErr"
    /\ bgpc = "sendErr"
    /\ errC' = Append(errC, bgRes.err)
    /\ bgpc' = "sendVersion"
    /\ IF bgRes.err # "nil"
       THEN Return(bgRes.err)
       ELSE pc' = "recvVersion" /\ runErr' = runErr
    /\ UNCHANGED <<osArgs, files, mainVars, bgRes, tmpDir, versionC, outVars, exitCode>>

\* main.go:193 with main.go:160
RecvVersion ==
    /\ pc = "recvVersion"
    /\ bgpc = "sendVersion"
    /\ versionC' = Append(versionC, bgRes.version)
    /\ version' = bgRes.version
    /\ bgpc' = "done"
    /\ pc' = "execute"
    /\ UNCHANGED <<osArgs, files, args, outputPath, output, importPath, repoRoot,
                   pkgName, dependsList, depends, relPath, binName, scn, bgRes, tmpDir,
                   errC, outVars, runErr, exitCode>>

\* the record of main.go:200-209
TmplData ==
    [PkgName |-> pkgName, Dir |-> PathBase(repoRoot.Root), PkgVer |-> version,
     Repo |-> repoRoot.Repo, Root |-> repoRoot.Root, Depends |-> depends,
     Path |-> relPath, BinName |-> binName]

\* what run returns after tmpl.Execute returned e
ExecuteResult(e) == "nil"

\* main.go:195-210: tmpl.Execute writes the whole recipe, or fails on a write
\* after part of it, or before any of it
Execute ==
    /\ pc = "execute"
    /\ ttyOut' = ttyOut
                 \o (IF output = "stdout"
                     THEN <<PromptText("===========================", <<>>)>>
                     ELSE <<>>)
                 \o <<PromptText("\n", <<>>)>>
    /\ executed' = Append(executed, TmplData)
    /\ \E w \in {"recipe", "partial", "nothing"} :
          /\ written' = w
          /\ Return(ExecuteResult(IF w = "recipe" THEN "nil" ELSE "write error"))
    /\ UNCHANGED <<osArgs, files, mainVars, bgVars, chanVars, stderr, exitCode>>

\* main.go:257-267
Main ==
    /\ pc = "returned"
    /\ IF runErr # "nil"
       THEN /\ stderr' = stderr \o <<runErr>>
                         \o (IF runErr = "specify import path" THEN <<"usage">> ELSE <<>>)
            /\ Exit(1)
       ELSE /\ Exit(0)
            /\ UNCHANGED stderr
    /\ UNCHANGED <<osArgs, files, mainVars, bgVars, chanVars, ttyOut, executed, written,
                   runErr>>

----------------------------------------------------------------------------
(* the goroutine of main.go:157-161; it runs while the process does *)

\* main.go:233-237
BgTempDir ==
    /\ Running
    /\ bgpc = "tempDir"
    /\ \/ tmpDir' = "exists" /\ bgpc' = "clone" /\ UNCHANGED bgRes
       \/ /\ bgRes' = [version |-> <<>>, err |-> "could not secure a temp dir"]
          /\ bgpc' = "sendErr"
          /\ UNCHANGED tmpDir
    /\ UNCHANGED <<osArgs, files, pc, mainVars, chanVars, outVars, runErr, exitCode>>

\* main.go:239-241
BgClone ==
    /\ Running
    /\ bgpc = "clone"
    /\ \/ bgpc' = "versionCmd" /\ UNCHANGED bgRes
       \/ /\ bgRes' = [version |-> <<>>, err |-> "could not clone the repo"]
          /\ bgpc' = "removeAll"
    /\ UNCHANGED <<osArgs, files, pc, mainVars, tmpDir, chanVars, outVars, runErr,
                   exitCode>>

\* main.go:243-254: the command prints a version; or exits non-zero, and its
\* standard error is copied to os.Stderr; or cannot be run
BgVersionCmd ==
    /\ Running
    /\ bgpc = "versionCmd"
    /\ \/ \E g \in GitStates :
             /\ bgRes' = [version |-> TrimSpace(PkgVerCmd(g)), err |-> "nil"]
             /\ UNCHANGED stderr
       \/ /\ bgRes' = [version |-> <<>>, err |-> "exit status 1"]
          /\ stderr' = Append(stderr, "version command stderr")
       \/ /\ bgRes' = [version |-> <<>>, err |-> "exec error"]
          /\ UNCHANGED stderr
    /\ bgpc' = "removeAll"
    /\ UNCHANGED <<osArgs, files, pc, mainVars, tmpDir, chanVars, ttyOut, executed,
                   written, runErr, exitCode>>

\* main.go:237: the deferred os.RemoveAll(dir), run as getVersion returns
BgRemoveAll ==
    /\ Running
    /\ bgpc = "removeAll"
    /\ tmpDir' = "removed"
    /\ bgpc' = "sendErr"
    /\ UNCHANGED <<osArgs, files, pc, mainVars, bgRes, chanVars, outVars, runErr,
                   exitCode>>

----------------------------------------------------------------------------

MainNext ==
    \/ OpenTTY \/ ParseFlags \/ OpenOutput \/ CheckArgs \/ Resolve \/ CheckVCS
    \/ PromptPkgName \/ PromptDepends \/ PromptBinName
    \/ RecvErr \/ RecvVersion \/ Execute \/ Main

BgNext == BgTempDir \/ BgClone \/ BgVersionCmd \/ BgRemoveAll

Next == MainNext \/ BgNext

Spec == Init /\ [][Next]_vars

\* the runs that start the goroutine name an import path; the fork-join is
\* explored from one that writes to a new PKGBUILD and one that writes to
\* standard output
FairInit ==
    /\ Init
    /\ osArgs \in {<<ImpSub>>, <<OFlag, Dash, ImpRoot>>}
    /\ \A f \in FileNames : files[f] = "absent"

\* the scheduler runs every goroutine that can take a step; a terminal read and
\* the commands of getVersion return
FairSpec == FairInit /\ [][Next]_vars /\ WF_vars(MainNext) /\ WF_vars(BgNext)

----------------------------------------------------------------------------
(* Properties *)

FetchErrs == {"could not secure a temp dir", "could not clone the repo",
              "exit status 1", "exec error"}
PromptErrs == {"input error", "interrupted"}

RunOver == pc \in {"returned", "exited"}

\* the three prompts were answered: main.go:188 has written its message
PromptsAnswered == \E i \in 1..Len(ttyOut) : ttyOut[i].text = "Please wait..."

\* nothing after the destination was opened has happened
NothingAfterOpen ==
    /\ importPath = <<>>
    /\ repoRoot = NilRepoRoot
    /\ bgpc = "none" /\ tmpDir = "none"
    /\ ttyOut = <<>>
    /\ executed = <<>> /\ written = "nothing"

\* C1: when the output path is not "-" and names a file that exists, the step
\* that opens the destination makes run return the error of the open, a file
\* that existed is never changed, and when run has returned that error nothing
\* was resolved, fetched, prompted or rendered.
C1_ExistingOutputFails ==
    /\ [][\A f \in FileNames : files[f] = "old" => files'[f] = "old"]_vars
    /\ [][(pc = "openOutput" /\ outputPath # Dash /\ files[outputPath] = "old")
            => (pc' = "returned" /\ runErr' = "file exists")]_vars
    /\ [](runErr = "file exists" => RunOver /\ output = "none" /\ NothingAfterOpen)

C1_Witness ==
    /\ pc = "exited" /\ exitCode = 1
    /\ outputPath = OutFile /\ files[OutFile] = "old"
    /\ runErr = "file exists"

\* C2: a command line without a positional import path, on which the terminal
\* and the destination were opened, ends with run returning the usage error,
\* the error and the usage text on standard error, and exit code 1.
C2_MissingImportPathIsUsageError ==
    (/\ pc = "exited"
     /\ ParseCmdLine(osArgs).err = "nil"
     /\ ParseCmdLine(osArgs).args = <<>>
     /\ output # "none")
    => (/\ runErr = "specify import path"
        /\ stderr = <<"specify import path", "usage">>
        /\ exitCode = 1)

\* C3: once the render step was reached, the process exits with 0 exactly when
\* the recipe was written in full, and with 1 otherwise.
C3_RenderFailureExitsOne ==
    (pc = "exited" /\ executed # <<>>)
    => (/\ exitCode \in {0, 1}
        /\ exitCode = 0 <=> written = "recipe")

\* C4 as stated: in every run that launched the fetch and has ended, one value
\* went over errC and one over versionC.
C4_ExactlyOnceOnEveryPath ==
    (pc = "exited" /\ bgpc # "none") => (Len(errC) = 1 /\ Len(versionC) = 1)

\* C4 amended: each channel carries at most one value, none before the three
\* prompts were answered and versionC only after a nil error; a run that ends
\* after a failed prompt has handed over nothing, a run that ends with the
\* fetch's error has handed over that error alone, and a run that reached the
\* render has handed over one value on each channel.
C4_HandoffsByOutcome ==
    /\ Len(errC) <= 1 /\ Len(versionC) <= 1
    /\ errC # <<>> => PromptsAnswered
    /\ versionC # <<>> => errC = <<"nil">>
    /\ (RunOver /\ bgpc # "none") =>
          /\ runErr \in PromptErrs => (errC = <<>> /\ versionC = <<>>)
          /\ runErr \in FetchErrs =>
                (errC = <<runErr>> /\ versionC = <<>> /\ bgpc = "sendVersion")
          /\ runErr = "nil" =>
                (errC = <<"nil">> /\ versionC = <<version>> /\ bgpc = "done")

C4_Witness ==
    /\ pc = "exited"
    /\ runErr = "could not clone the repo"
    /\ errC = <<"could not clone the repo">> /\ versionC = <<>>

\* C5: when the process has exited, the temporary directory of getVersion no
\* longer exists.
C5_TempDirGoneAtExit == pc = "exited" => tmpDir # "exists"

\* C6: run returns an error of the fetch only after the third prompt was
\* answered, and then nothing was rendered; when a prompt failed run returns
\* the prompt's error whatever the fetch did; when the three prompts were
\* answered and the fetch failed run returns the fetch's error.
C6_FetchErrorAfterPrompts ==
    /\ runErr \in FetchErrs =>
          /\ PromptsAnswered /\ binName # <<>>
          /\ executed = <<>> /\ written = "nothing"
    /\ scn.eof => (RunOver /\ runErr \in PromptErrs)
    /\ (RunOver /\ PromptsAnswered /\ bgRes.err # "nil") =>
          (runErr = bgRes.err /\ executed = <<>> /\ written = "nothing")

C6_Witness ==
    /\ pc = "exited"
    /\ PromptsAnswered
    /\ bgRes.err = "exit status 1" /\ runErr = "exit status 1"

\* C7: when the resolved kind is not Git, run returns the unsupported-VCS
\* error at the check, and then no goroutine was started, no prompt was shown
\* and nothing was written to the destination.
C7_UnsupportedVCS ==
    /\ (repoRoot.VCS \notin {"", "Git"} /\ pc # "checkVCS") =>
          (RunOver /\ runErr = "not git repo is not supported")
    /\ runErr = "not git repo is not supported" =>
          /\ bgpc = "none" /\ tmpDir = "none"
          /\ errC = <<>> /\ versionC = <<>>
          /\ ttyOut = <<>>
          /\ executed = <<>> /\ written = "nothing"

C7_Witness ==
    /\ pc = "exited" /\ exitCode = 1
    /\ repoRoot.VCS = "Mercurial"
    /\ output = "file"

AllSpace(s) == \A i \in 1..Len(s) : IsSpace(s[i])

\* v is what a prompt with default dflt owes for the line typed
PromptPost(dflt, line, v) ==
    IF AllSpace(line) THEN v = dflt
    ELSE /\ v # <<>> /\ ~IsSpace(v[1]) /\ ~IsSpace(v[Len(v)])
         /\ \E i \in 0..Len(line) :
               /\ i + Len(v) <= Len(line)
               /\ SubSeq(line, i + 1, i + Len(v)) = v
               /\ AllSpace(SubSeq(line, 1, i))
               /\ AllSpace(SubSeq(line, i + Len(v) + 1, Len(line)))

\* C8: after each prompt the value it gave is the default when the line read is
\* empty or all whitespace, and otherwise the line without its surrounding
\* whitespace; when no line could be read run returns the prompt's error (the
\* read error, or "interrupted" at the end of the input) and the prompted
\* variable keeps its zero value.
C8_PromptValue ==
    /\ pc = "promptDepends" =>
          PromptPost(GitSuffix(PathBase(repoRoot.Root)), scn.text, pkgName)
    /\ pc = "promptBinName" => PromptPost(<<>>, scn.text, dependsList)
    /\ pc = "recvErr" => PromptPost(PathBase(importPath), scn.text, binName)
    /\ scn.eof =>
          /\ RunOver
          /\ runErr = IF scn.err # "nil" THEN "input error" ELSE "interrupted"
          /\ binName = <<>>
          /\ Len(ttyOut) < 3 => (dependsList = <<>> /\ depends = <<>>)
          /\ Len(ttyOut) < 2 => pkgName = <<>>

C8_Witness ==
    /\ pc = "promptDepends"
    /\ scn.text = <<" ", "a", " ">>
    /\ pkgName = <<"a">>

\* C9: every record handed to the template has a non-empty package name,
\* directory name, version, repository URL, root import path and binary name.
C9_RequiredFieldsNonEmpty ==
    \A i \in 1..Len(executed) :
        /\ executed[i].PkgName # <<>>
        /\ executed[i].Dir # <<>>
        /\ executed[i].PkgVer # <<>>
        /\ executed[i].Repo # <<>>
        /\ executed[i].Root # <<>>
        /\ executed[i].BinName # <<>>

C9_Witness ==
    /\ executed # <<>>
    /\ scn.text = <<" ">>
    /\ executed[1].Depends = <<>>
    /\ executed[1].Path = <<>>
    /\ executed[1].BinName = <<"a">>

\* C10: once the goroutine is started, run returns (and main then ends the
\* process), whatever the order of the goroutine's steps and the prompts.
C10_RunReturns == (bgpc # "none") ~> RunOver

C10_Witness ==
    /\ pc = "returned" /\ runErr = "nil"
    /\ bgpc = "done"
    /\ errC = <<"nil">> /\ Len(versionC) = 1

====
